---- MODULE Spec2Model ----
(***************************************************************************)
(* Model of .github/scripts/ai-analyzer.js: one invocation of the          *)
(* analyzer.  The script is a linear pipeline: the module top level parses *)
(* the arguments and prepares the analysis directory, the main function    *)
(* dispatches on --type, analyzeSingleReport / analyzeTrend run            *)
(* synchronously up to the HTTPS request, and the response (or the request *)
(* error) resumes them to write the artifacts.                             *)
(*                                                                         *)
(* Units.  A pass rate is an integer number of tenths of a percent, so     *)
(* 900 is 90.0.  A timestamp YYYYMMDD-HHMMSS is a pair <<day, tod>>: the   *)
(* day number and the time of day in ticks; a day has TicksPerDay ticks.   *)
(* Strings of the program are TLA+ strings; a template and a prompt are    *)
(* sequences of string fragments, a placeholder being one fragment.        *)
(***************************************************************************)
EXTENDS Integers, Sequences, FiniteSets, TLC

VARIABLES
    project,        \* options.project is given (truthy)
    type,           \* options.type: "" when not given
    timestamp,      \* options.timestamp: NoTimestamp when not given
    period,         \* options.period: [kind, n]
    now,            \* the wall clock, in ticks
    apiKey,         \* process.env.ANTHROPIC_API_KEY is set
    config,         \* config/ai-prompts.yml: [exists, single, trend]
    reports,        \* reports/<project>: [exists, dirs], dirs : entry name -> its kind
    anaDir,         \* analysis/<project> exists
    files,          \* the three artifacts under analysis/<project>
    pc,             \* "start", "main", "awaiting", "exited"
    exitCode,       \* -1 while running
    err,            \* which diagnostic ended the run ("" for none)
    requests,       \* number of https.request calls opened
    fsOps,          \* the filesystem changes made, in order
    single,         \* analyzeSingleReport's locals
    trend,          \* analyzeTrend's locals
    userPrompt,     \* the rendered prompt handed to callAnthropicAPI
    response,       \* what came back on the request: [kind, status, body]
    analysis        \* what the await of callAnthropicAPI produced

vars == <<project, type, timestamp, period, now, apiKey, config, reports, anaDir,
          files, pc, exitCode, err, requests, fsOps, single, trend, userPrompt,
          response, analysis>>

inputs == <<project, type, timestamp, period, now, apiKey, config, reports>>

-----------------------------------------------------------------------------
(* Bounds of the model. *)

MaxReports == 3     \* at most this many entries under reports/<project>
MaxDay     == 3     \* report days are 0..MaxDay
MaxPeriod  == 1     \* numeric --period values are 0..MaxPeriod

(* Program constants. *)

DefaultPeriod == 30         \* parseInt(period) || 30

Tods        == {0, 1}                   \* times of day: midnight, later
TicksPerDay == Cardinality(Tods)        \* 24 * 60 * 60 * 1000 ms
Days        == 0 .. MaxDay
NowDay      == MaxDay - 1               \* leaves one day in the future
Names       == {<<d, 1>> : d \in Days}  \* candidate report directory names
Rates       == {850, 900, 950}
NoTimestamp == <<>>

-----------------------------------------------------------------------------
(* Strings and numbers. *)

Abs(x) == IF x < 0 THEN -x ELSE x

DigitStr(d) == <<"0", "1", "2", "3", "4", "5", "6", "7", "8", "9">>[d + 1]

RECURSIVE NatStr(_)
NatStr(n) == IF n < 10 THEN DigitStr(n) ELSE NatStr(n \div 10) \o DigitStr(n % 10)

(* Number.prototype.toFixed(1) of a value given in tenths. *)
ToFixed1(x) ==
    (IF x < 0 THEN "-" ELSE "") \o NatStr(Abs(x) \div 10) \o "." \o DigitStr(Abs(x) % 10)

(* (passRateChange > 0 ? '+' : '') + passRateChange.toFixed(1) *)
DeltaStr(change) == (IF change > 0 THEN "+" ELSE "") \o ToFixed1(change)

(* `${year}-${month}-${day}` of a timestamp *)
DateStr(ts) == "day" \o NatStr(ts[1])

(* the timestamp as the string it is *)
TsStr(ts) == "day" \o NatStr(ts[1]) \o "-" \o NatStr(ts[2])

-----------------------------------------------------------------------------
(* Sequences. *)

RECURSIVE SumSeq(_)
SumSeq(s) == IF s = <<>> THEN 0 ELSE Head(s) + SumSeq(Tail(s))

RECURSIVE SumSq(_)
SumSq(s) == IF s = <<>> THEN 0 ELSE Head(s) * Head(s) + SumSq(Tail(s))

(* Array.prototype.indexOf, zero-based, -1 when absent *)
IndexOf(s, x) ==
    IF \E i \in 1 .. Len(s) : s[i] = x
    THEN (CHOOSE i \in 1 .. Len(s) : s[i] = x /\ \A j \in 1 .. (i - 1) : s[j] # x) - 1
    ELSE -1

(* lexicographic order of two timestamp strings *)
TsLess(a, b) == a[1] < b[1] \/ (a[1] = b[1] /\ a[2] < b[2])

(* names.sort(): ascending sequence of a set of names *)
RECURSIVE SortNames(_)
SortNames(S) ==
    IF S = {} THEN <<>>
    ELSE LET m == CHOOSE x \in S : \A y \in S : ~TsLess(y, x)
         IN  <<m>> \o SortNames(S \ {m})

Reverse(s) == [i \in 1 .. Len(s) |-> s[Len(s) + 1 - i]]

-----------------------------------------------------------------------------
(* The Prompt Renderer: String.prototype.replace with a string pattern. *)

(* the first fragment equal to ph becomes val; the others stay *)
ReplaceFirst(tpl, ph, val) ==
    IF \E i \in 1 .. Len(tpl) : tpl[i] = ph
    THEN LET k == CHOOSE i \in 1 .. Len(tpl) :
                    tpl[i] = ph /\ \A j \in 1 .. (i - 1) : tpl[j] # ph
         IN  [tpl EXCEPT ![k] = val]
    ELSE tpl

(* the placeholders of the two templates, in the order the code replaces them *)
SinglePlaceholders ==
    <<"{project}", "{timestamp}", "{run_number}", "{branch}", "{total_tests}",
      "{passed}", "{failed}", "{pass_rate}", "{previous_pass_rate}",
      "{pass_rate_change}", "{failed_tests_details}">>

TrendPlaceholders ==
    <<"{project}", "{period_days}", "{total_runs}", "{historical_data}",
      "{avg_pass_rate}", "{median_pass_rate}", "{std_dev}", "{max_pass_rate}",
      "{max_date}", "{min_pass_rate}", "{min_date}">>

(* tpl.replace(phs[1], vals[1]).replace(phs[2], vals[2])... *)
RECURSIVE ReplaceChain(_, _, _)
ReplaceChain(tpl, phs, vals) ==
    IF phs = <<>> THEN tpl
    ELSE ReplaceChain(ReplaceFirst(tpl, Head(phs), Head(vals)), Tail(phs), Tail(vals))

(* The metadata records of the model carry timestamp and pass_rate only, so *)
(* the optional fields render as the code's defaults: 'N/A', 0 and ''.      *)
SingleValues(ts, rate, previousPassRate, passRateChange) ==
    <<"proj", TsStr(ts), "N/A", "N/A", "0", "0", "0", ToFixed1(rate),
      ToFixed1(previousPassRate), DeltaStr(passRateChange), "">>

RenderSingle(tpl, ts, rate, previousPassRate, passRateChange) ==
    ReplaceChain(tpl, SinglePlaceholders,
                 SingleValues(ts, rate, previousPassRate, passRateChange))

-----------------------------------------------------------------------------
(* analyzeSingleReport, from the metadata lookup to the delta. *)

(* fs.existsSync(reports/<project>/<name>/metadata.json) *)
MetaExists(dirs, name) ==
    name \in DOMAIN dirs /\ dirs[name].kind \notin {"file", "missing"}

(* readdirSync(dir).filter(name => statSync(name).isDirectory()) *)
Directories(dirs) == {n \in DOMAIN dirs : dirs[n].kind # "file"}

(* readdirSync(...).filter(isDirectory).sort().reverse() *)
ReportNamesDesc(dirs) == Reverse(SortNames(Directories(dirs)))

(* the guard on the index of the requested report *)
HasPreviousGuard(currentIndex) == currentIndex > 0

BlankSingle ==
    [fail |-> "", rate |-> 0, allReports |-> <<>>, currentIndex |-> -1,
     previousRead |-> FALSE, previousPassRate |-> 0, passRateChange |-> 0]

SingleLocals(dirs, ts) ==
    IF ~MetaExists(dirs, ts)
    THEN [BlankSingle EXCEPT !.fail = "metadata-not-found"]
    ELSE IF dirs[ts].kind = "corrupt"
    THEN [BlankSingle EXCEPT !.fail = "exception"]   \* JSON.parse throws
    ELSE
    LET rate  == dirs[ts].pass_rate
        all   == ReportNamesDesc(dirs)
        idx   == IndexOf(all, ts)
        base  == [BlankSingle EXCEPT !.rate = rate, !.allReports = all,
                                     !.currentIndex = idx]
    IN  IF ~HasPreviousGuard(idx)
        THEN [base EXCEPT !.passRateChange = rate]
        ELSE IF idx + 2 > Len(all)
        THEN [base EXCEPT !.fail = "exception"]  \* path.join(.., undefined, ..) throws
        ELSE LET prev == dirs[all[idx + 2]]      \* allReports[currentIndex + 1]
             IN  IF prev.kind = "missing"
                 THEN [base EXCEPT !.passRateChange = rate]
                 ELSE IF prev.kind = "corrupt"
                 THEN [base EXCEPT !.fail = "exception"]
                 ELSE [base EXCEPT !.previousRead = TRUE,
                                   !.previousPassRate = prev.pass_rate,
                                   !.passRateChange = rate - prev.pass_rate]

-----------------------------------------------------------------------------
(* analyzeTrend, from the enumeration to the statistics. *)

(* parseInt(period) || 30 *)
PeriodDays(p) == IF p.kind = "int" /\ p.n # 0 THEN p.n ELSE DefaultPeriod

(* variant: a metadata.json that does not parse still yields an entry *)
LoadReportsKeepCorrupt(dirs) ==
    LET names == SortNames({n \in Directories(dirs) : dirs[n].kind \in {"valid", "corrupt"}})
    IN  [i \in 1 .. Len(names) |->
            [timestamp |-> names[i], pass_rate |-> dirs[names[i]].pass_rate]]

(* the parsed metadata.json files, nulls dropped, oldest first *)
LoadReports(dirs) ==
    LET names == SortNames({n \in Directories(dirs) : dirs[n].kind = "valid"})
    IN  [i \in 1 .. Len(names) |->
            [timestamp |-> names[i], pass_rate |-> dirs[names[i]].pass_rate]]

(* new Date(`${year}-${month}-${day}`): midnight of the report's day *)
ReportDate(ts) == ts[1] * TicksPerDay

(* now.getTime() - periodDays * 24 * 60 * 60 * 1000 *)
CutoffDate(t, periodDays) == t - periodDays * TicksPerDay

InWindow(ts, t, periodDays) == ReportDate(ts) >= CutoffDate(t, periodDays)

RecentReports(all, t, periodDays) ==
    SelectSeq(all, LAMBDA r : InWindow(r.timestamp, t, periodDays))

PassRates(recent) == [i \in 1 .. Len(recent) |-> recent[i].pass_rate]

SortedRates(rates) == SortSeq(rates, LAMBDA a, b : a < b)

(* variant: the lower of the two middle indices *)
MedianIndexLower(n) == (n - 1) \div 2

(* sortedRates[Math.floor(sortedRates.length / 2)] *)
MedianIndex(n) == n \div 2

Median(rates) == SortedRates(rates)[MedianIndex(Len(rates)) + 1]

MaxOf(rates) == CHOOSE m \in {rates[i] : i \in 1 .. Len(rates)} :
                    \A i \in 1 .. Len(rates) : rates[i] <= m
MinOf(rates) == CHOOSE m \in {rates[i] : i \in 1 .. Len(rates)} :
                    \A i \in 1 .. Len(rates) : rates[i] >= m

(* recentReports.find(r => r.pass_rate === rate) *)
FindByRate(recent, rate) ==
    recent[CHOOSE i \in 1 .. Len(recent) :
              recent[i].pass_rate = rate /\ \A j \in 1 .. (i - 1) : recent[j].pass_rate # rate]

(* avgPassRate.toFixed(1): the mean rounded to a tenth *)
AvgTenths(rates) == (2 * SumSeq(rates) + Len(rates)) \div (2 * Len(rates))

(* stdDev.toFixed(1): the population standard deviation rounded to a tenth; *)
(* n^2 * variance = n * sum(r^2) - sum(r)^2                                 *)
StdDevTenths(rates) ==
    LET n == Len(rates)
        v == n * SumSq(rates) - SumSeq(rates) * SumSeq(rates)
    IN  CHOOSE s \in 0 .. (MaxOf(rates) - MinOf(rates)) :
            /\ (s = 0 \/ (2 * s - 1) * (2 * s - 1) * n * n <= 4 * v)
            /\ 4 * v < (2 * s + 1) * (2 * s + 1) * n * n

RECURSIVE JoinLines(_)
JoinLines(lines) ==
    IF lines = <<>> THEN ""
    ELSE IF Len(lines) = 1 THEN Head(lines)
    ELSE Head(lines) \o "\n" \o JoinLines(Tail(lines))

(* `${date}: ${rate.toFixed(1)}% (${passed}/${total_tests})`, one per line *)
HistoricalData(recent) ==
    JoinLines([i \in 1 .. Len(recent) |->
        DateStr(recent[i].timestamp) \o ": " \o ToFixed1(recent[i].pass_rate)
            \o "% (undefined/undefined)"])

BlankTrend ==
    [fail |-> "", periodDays |-> 0, allReports |-> <<>>, recentReports |-> <<>>,
     computed |-> FALSE, avg |-> 0, median |-> 0, stdDev |-> 0,
     max |-> 0, min |-> 0, maxDate |-> NoTimestamp, minDate |-> NoTimestamp]

TrendLocals(rep, p, t) ==
    LET days == PeriodDays(p)
        base == [BlankTrend EXCEPT !.periodDays = days]
    IN  IF ~rep.exists
        THEN [base EXCEPT !.fail = "project-dir-not-found"]
        ELSE
        LET all == LoadReports(rep.dirs)
        IN  IF Len(all) = 0
            THEN [base EXCEPT !.fail = "no-reports"]
            ELSE
            LET recent == RecentReports(all, t, days)
                rates  == PassRates(recent)
            IN  IF Len(recent) = 0
                THEN [base EXCEPT !.allReports = all, !.fail = "no-recent"]
                ELSE [base EXCEPT !.allReports = all, !.recentReports = recent,
                                  !.computed = TRUE,
                                  !.avg = AvgTenths(rates),
                                  !.median = Median(rates),
                                  !.stdDev = StdDevTenths(rates),
                                  !.max = MaxOf(rates),
                                  !.min = MinOf(rates),
                                  !.maxDate = FindByRate(recent, MaxOf(rates)).timestamp,
                                  !.minDate = FindByRate(recent, MinOf(rates)).timestamp]

TrendValues(t) ==
    <<"proj", NatStr(t.periodDays), NatStr(Len(t.recentReports)),
      HistoricalData(t.recentReports), ToFixed1(t.avg), ToFixed1(t.median),
      ToFixed1(t.stdDev), ToFixed1(t.max), TsStr(t.maxDate), ToFixed1(t.min),
      TsStr(t.minDate)>>

RenderTrend(tpl, t) == ReplaceChain(tpl, TrendPlaceholders, TrendValues(t))

-----------------------------------------------------------------------------
(* The inputs of a run. *)

(* an entry of reports/<project>: a plain file, or a directory whose        *)
(* metadata.json is missing, does not parse, or holds a record              *)
Metas ==
    [kind : {"file", "missing", "corrupt"}, pass_rate : {0}]
        \cup [kind : {"valid"}, pass_rate : Rates]

NoDirs == [n \in {} |-> [kind |-> "missing", pass_rate |-> 0]]

(* reports/<project>: absent, or a directory of at most k entries *)
ReportTrees(k) ==
    {[exists |-> FALSE, dirs |-> NoDirs]}
        \cup {[exists |-> TRUE, dirs |-> d] :
                d \in UNION {[S -> Metas] :
                               S \in {T \in SUBSET Names : Cardinality(T) <= k}}}

NoPeriod == [kind |-> "absent", n |-> 0]
Periods  == {NoPeriod, [kind |-> "text", n |-> 0]}
                \cup {[kind |-> "int", n |-> i] : i \in 0 .. MaxPeriod}
Nows     == {NowDay * TicksPerDay + t : t \in Tods}

(* config/ai-prompts.yml: templates that use a placeholder once, or twice *)
SingleOnce ==
    <<"Project ", "{project}", " at ", "{timestamp}", " run ", "{run_number}",
      " on ", "{branch}", ": ", "{passed}", "/", "{total_tests}", " passed, ",
      "{failed}", " failed, rate ", "{pass_rate}", " was ", "{previous_pass_rate}",
      " change ", "{pass_rate_change}", "{failed_tests_details}">>

SingleTwice == SingleOnce \o <<" Summarise ", "{project}", " at ", "{pass_rate}">>

TrendOnce ==
    <<"Project ", "{project}", " over ", "{period_days}", " days, ", "{total_runs}",
      " runs:\n", "{historical_data}", "\navg ", "{avg_pass_rate}", " median ",
      "{median_pass_rate}", " sd ", "{std_dev}", " max ", "{max_pass_rate}", " on ",
      "{max_date}", " min ", "{min_pass_rate}", " on ", "{min_date}">>

TrendTwice == TrendOnce \o <<" Summarise ", "{project}", " avg ", "{avg_pass_rate}">>

NominalConfig == [exists |-> TRUE, single |-> SingleOnce, trend |-> TrendOnce]

Configs ==
    {NominalConfig,
     [exists |-> TRUE, single |-> SingleTwice, trend |-> TrendTwice],
     [exists |-> FALSE, single |-> <<>>, trend |-> <<>>]}

Artifacts == {"latest-analysis.md", "insights.json", "trend-analysis.md"}

Absent == [state |-> "absent", text |-> <<>>, change |-> 0]
Old    == [state |-> "old", text |-> <<"earlier">>, change |-> 0]

NoAnalysis == [resolved |-> FALSE, defined |-> FALSE, text |-> <<>>]

NoBody     == [json |-> FALSE, blocks |-> 0, hasText |-> FALSE, text |-> <<>>]
NoResponse == [kind |-> "none", status |-> 0, body |-> NoBody]

(* the part of the state the program computes *)
InitProgram ==
    /\ pc = "start"
    /\ exitCode = -1
    /\ err = ""
    /\ requests = 0
    /\ fsOps = <<>>
    /\ single = BlankSingle
    /\ trend = BlankTrend
    /\ userPrompt = <<>>
    /\ response = NoResponse
    /\ analysis = NoAnalysis

(* the arguments each mode reads; the ones it never reads are left out *)
InitModeArgs ==
    \/ /\ type = "single"
       /\ timestamp \in Names \cup {NoTimestamp}
       /\ period = NoPeriod
       /\ now = NowDay * TicksPerDay
    \/ /\ type = "trend"
       /\ timestamp = NoTimestamp
       /\ period \in Periods
       /\ now \in Nows

(* runs over every report tree, in a set-up environment *)
InitReports ==
    /\ project = TRUE
    /\ InitModeArgs
    /\ apiKey = TRUE
    /\ config = NominalConfig
    /\ reports \in ReportTrees(MaxReports)
    /\ anaDir = TRUE
    /\ files = [f \in Artifacts |-> Absent]

(* runs over every command line and environment, on a small report tree *)
InitEnvironment ==
    /\ project \in BOOLEAN
    /\ \/ InitModeArgs
       \/ /\ type \in {"", "deploy"}
          /\ timestamp = NoTimestamp
          /\ period = NoPeriod
          /\ now = NowDay * TicksPerDay
    /\ apiKey \in BOOLEAN
    /\ config \in Configs
    /\ reports \in ReportTrees(1)
    /\ \/ anaDir = FALSE /\ files = [f \in Artifacts |-> Absent]
       \/ anaDir = TRUE /\ files \in {[f \in Artifacts |-> Absent], [f \in Artifacts |-> Old]}

Init == InitProgram /\ (InitReports \/ InitEnvironment)

-----------------------------------------------------------------------------
(* The program. *)

(* process.exit(code), or the end of the script *)
Exit(code, why) ==
    /\ pc' = "exited"
    /\ exitCode' = code
    /\ err' = why

(* module top level: the arguments, the configuration, the analysis directory *)
TopLevel ==
    /\ pc = "start"
    /\ IF ~project \/ type = ""
       THEN Exit(1, "usage") /\ UNCHANGED <<anaDir, fsOps>>
       ELSE IF ~config.exists
       THEN Exit(1, "config") /\ UNCHANGED <<anaDir, fsOps>>  \* readFileSync throws
       ELSE /\ pc' = "main"
            /\ anaDir' = TRUE
            /\ fsOps' = IF anaDir THEN fsOps ELSE Append(fsOps, "mkdir")
            /\ UNCHANGED <<exitCode, err>>
    /\ UNCHANGED <<inputs, files, requests, single, trend, userPrompt, response,
                   analysis>>

(* variant: the request is opened before the credential is looked at *)
CallAnthropicAPILateCheck ==
    /\ requests' = requests + 1
    /\ IF ~apiKey
       THEN Exit(1, "no-api-key")
       ELSE pc' = "awaiting" /\ UNCHANGED <<exitCode, err>>

(* callAnthropicAPI up to https.request: the credential check, then the request *)
CallAnthropicAPI ==
    IF ~apiKey
    THEN Exit(1, "no-api-key") /\ UNCHANGED requests
    ELSE /\ pc' = "awaiting"
         /\ requests' = requests + 1
         /\ UNCHANGED <<exitCode, err>>

AnalyzeSingleReport ==
    /\ pc = "main"
    /\ type = "single"
    /\ IF timestamp = NoTimestamp
       THEN Exit(1, "no-timestamp") /\ UNCHANGED <<single, userPrompt, requests>>
       ELSE LET loc == SingleLocals(reports.dirs, timestamp)
            IN  /\ single' = loc
                /\ IF loc.fail # ""
                   THEN Exit(1, loc.fail) /\ UNCHANGED <<userPrompt, requests>>
                   ELSE /\ userPrompt' = RenderSingle(config.single, timestamp, loc.rate,
                                                      loc.previousPassRate, loc.passRateChange)
                        /\ CallAnthropicAPI
    /\ UNCHANGED <<inputs, anaDir, files, fsOps, trend, response, analysis>>

AnalyzeTrend ==
    /\ pc = "main"
    /\ type = "trend"
    /\ LET loc == TrendLocals(reports, period, now)
       IN  /\ trend' = loc
           /\ IF loc.fail # ""
              THEN Exit(1, loc.fail) /\ UNCHANGED <<userPrompt, requests>>
              ELSE /\ userPrompt' = RenderTrend(config.trend, loc)
                   /\ CallAnthropicAPI
    /\ UNCHANGED <<inputs, anaDir, files, fsOps, single, response, analysis>>

(* variant: the unknown type is reported but the exit is missing *)
UnknownTypeExitZero ==
    /\ pc = "main"
    /\ type \notin {"single", "trend"}
    /\ Exit(0, "unknown-type")
    /\ UNCHANGED <<inputs, anaDir, files, requests, fsOps, single, trend, userPrompt,
                   response, analysis>>

UnknownType ==
    /\ pc = "main"
    /\ type \notin {"single", "trend"}
    /\ Exit(1, "unknown-type")
    /\ UNCHANGED <<inputs, anaDir, files, requests, fsOps, single, trend, userPrompt,
                   response, analysis>>

(* what the endpoint may answer *)
Texts    == {<<"Stable.">>, <<"Regression in login.", "Details follow.">>}
Statuses == {200, 500}
Bodies ==
    {NoBody,
     [json |-> TRUE, blocks |-> 0, hasText |-> FALSE, text |-> <<>>],
     [json |-> TRUE, blocks |-> 1, hasText |-> FALSE, text |-> <<>>]}
        \cup {[json |-> TRUE, blocks |-> 1, hasText |-> TRUE, text |-> t] : t \in Texts}

(* `${analysis}` inside the document *)
Interpolate(a) == IF a.defined THEN a.text ELSE <<"undefined">>

Written(text, change) == [state |-> "new", text |-> text, change |-> change]

(* the rest of analyzeSingleReport / analyzeTrend once the await has a value *)
SaveAnalysis(a) ==
    IF type = "single"
    THEN IF a.defined
         THEN /\ files' = [files EXCEPT
                    !["latest-analysis.md"] = Written(Interpolate(a), 0),
                    !["insights.json"] = Written(<<Head(a.text)>>, single.passRateChange)]
              /\ fsOps' = fsOps \o <<"latest-analysis.md", "insights.json">>
              /\ Exit(0, "")
         ELSE /\ files' = [files EXCEPT
                    !["latest-analysis.md"] = Written(Interpolate(a), 0)]
              /\ fsOps' = Append(fsOps, "latest-analysis.md")
              /\ Exit(1, "exception")               \* analysis.split throws
    ELSE /\ files' = [files EXCEPT !["trend-analysis.md"] = Written(Interpolate(a), 0)]
         /\ fsOps' = Append(fsOps, "trend-analysis.md")
         /\ Exit(0, "")

(* req.on('error') *)
RequestError ==
    /\ pc = "awaiting"
    /\ Exit(1, "api-error")
    /\ response' = [kind |-> "error", status |-> 0, body |-> NoBody]
    /\ UNCHANGED <<inputs, anaDir, files, requests, fsOps, single, trend, userPrompt,
                   analysis>>

(* variant: the status is not looked at *)
StatusRejectsNever(status) == FALSE

(* the status check of res.on('end') *)
StatusRejects(status) == status # 200

(* JSON.parse(data) or response.content[0].text throws *)
ParseRejects(body) == ~body.json \/ body.blocks = 0

(* res.on('end'), and the continuation of the await *)
ResponseEnd ==
    /\ pc = "awaiting"
    /\ \E status \in Statuses, body \in Bodies :
          /\ response' = [kind |-> "end", status |-> status, body |-> body]
          /\ IF StatusRejects(status)
             THEN Exit(1, "api-status") /\ UNCHANGED <<files, fsOps, analysis>>
             ELSE IF ParseRejects(body)
             THEN Exit(1, "api-parse") /\ UNCHANGED <<files, fsOps, analysis>>
             ELSE LET a == [resolved |-> TRUE, defined |-> body.hasText,
                            text |-> body.text]
                  IN  analysis' = a /\ SaveAnalysis(a)
    /\ UNCHANGED <<inputs, anaDir, requests, single, trend, userPrompt>>

Next ==
    \/ TopLevel
    \/ AnalyzeSingleReport
    \/ AnalyzeTrend
    \/ UnknownType
    \/ RequestError
    \/ ResponseEnd

Spec == Init /\ [][Next]_vars

-----------------------------------------------------------------------------
(* Properties. *)

(* analyzeSingleReport has run to its request or to an exit *)
SingleRan ==
    /\ type = "single"
    /\ pc \in {"awaiting", "exited"}
    /\ err \notin {"usage", "config"}

(* analyzeTrend has run to its request or to an exit *)
TrendRan ==
    /\ type = "trend"
    /\ pc \in {"awaiting", "exited"}
    /\ err \notin {"usage", "config"}

(* the requested report is a directory whose metadata.json parses *)
RequestedValid ==
    /\ timestamp # NoTimestamp
    /\ timestamp \in DOMAIN reports.dirs
    /\ reports.dirs[timestamp].kind = "valid"

(* the report directories older than the requested one *)
OlderThanRequested == {n \in Directories(reports.dirs) : TsLess(n, timestamp)}

(* the newest of them *)
ImmediatelyOlder ==
    CHOOSE n \in OlderThanRequested : \A m \in OlderThanRequested : ~TsLess(n, m)

PromptHas(str) == \E i \in 1 .. Len(userPrompt) : userPrompt[i] = str

ArtifactWritten ==
    \/ \E i \in 1 .. Len(fsOps) : fsOps[i] \in Artifacts
    \/ \E f \in Artifacts : files[f].state = "new"

(* C1: in single-report mode, when no report directory sorts before the     *)
(* requested one, the baseline is 0, the delta is the current pass rate and *)
(* the run goes on to the generation call instead of failing: for the only  *)
(* report as for the oldest of several.                                     *)
C1_NoPreviousBaselineZero ==
    (SingleRan /\ RequestedValid /\ OlderThanRequested = {})
        => /\ single.fail = ""
           /\ single.previousPassRate = 0
           /\ single.passRateChange = reports.dirs[timestamp].pass_rate
           /\ err # "exception"
           /\ (apiKey => requests = 1)

(* C2: in single-report mode, when the report immediately older than the    *)
(* requested one has a readable metadata.json, the delta is the current     *)
(* rate minus that report's rate, rendered with one decimal and a leading   *)
(* '+' exactly when positive (90.0 after 85.0 is '+5.0', after 95.0 is      *)
(* '-5.0'), at every position of the requested report, the newest included. *)
C2_DeltaAgainstPrevious ==
    (/\ SingleRan /\ RequestedValid /\ OlderThanRequested # {}
     /\ reports.dirs[ImmediatelyOlder].kind = "valid")
        => LET cur  == reports.dirs[timestamp].pass_rate
               prev == reports.dirs[ImmediatelyOlder].pass_rate
           IN  /\ single.fail = ""
               /\ single.passRateChange = cur - prev
               /\ (cur = 900 /\ prev = 850) => PromptHas("+5.0")
               /\ (cur = 900 /\ prev = 950) => PromptHas("-5.0")
               /\ (cur = prev) => PromptHas("0.0")

(* the window's rates below, and not above, a value *)
CountBelow(rates, m)   == Cardinality({i \in 1 .. Len(rates) : rates[i] < m})
CountAtMost(rates, m)  == Cardinality({i \in 1 .. Len(rates) : rates[i] <= m})
WindowRates == [i \in 1 .. Len(trend.recentReports) |-> trend.recentReports[i].pass_rate]

(* the k-th smallest (k from 1) of the window's rates is m *)
IsKthSmallest(m, k) ==
    /\ \E i \in 1 .. Len(WindowRates) : WindowRates[i] = m
    /\ CountBelow(WindowRates, m) < k
    /\ CountAtMost(WindowRates, m) >= k

(* C3 as stated: the median is the middle element of the ascending rates    *)
(* for an odd count and the lower-middle element for an even count; the     *)
(* median of [10, 20, 30, 40] is 20.                                        *)
C3_MedianLowerMiddle ==
    trend.computed => IsKthSmallest(trend.median, (Len(WindowRates) + 1) \div 2)

(* C3 amended: the median is the element at zero-based index floor(n / 2)   *)
(* of the ascending rates: the middle element for an odd count, the         *)
(* upper-middle element for an even count; the median of [10, 20, 30, 40]   *)
(* is 30.                                                                   *)
C3_MedianFloorIndex ==
    /\ trend.computed =>
          IsKthSmallest(trend.median, (Len(WindowRates) \div 2) + 1)
    /\ Median(<<100, 200, 300, 400>>) = 300

(* an even window whose two middle rates differ *)
C3_Witness ==
    /\ TrendRan /\ trend.computed
    /\ Len(WindowRates) = 2
    /\ WindowRates[1] # WindowRates[2]
    /\ trend.median = MaxOf(WindowRates)

(* the day of the cutoff, now minus the period *)
CutoffDay == (now - PeriodDays(period) * TicksPerDay) \div TicksPerDay

InRecent(name) ==
    \E i \in 1 .. Len(trend.recentReports) : trend.recentReports[i].timestamp = name

(* C4: in trend mode a record dated on the calendar day of the cutoff is    *)
(* kept in the window, at whatever time of day the analysis runs.           *)
C4_BoundaryDayKept ==
    TrendRan =>
        \A n \in Directories(reports.dirs) :
            (reports.dirs[n].kind = "valid" /\ n[1] = CutoffDay) => InRecent(n)

(* C5: in trend mode the enumeration yields exactly the records of the      *)
(* report directories whose metadata.json exists and parses, oldest first;  *)
(* a directory whose metadata.json is missing or does not parse is skipped  *)
(* without an error and without ending the run.                             *)
C5_EnumerationSkipsUnreadable ==
    (TrendRan /\ reports.exists) =>
        LET valid == {n \in DOMAIN reports.dirs : reports.dirs[n].kind = "valid"}
            all   == trend.allReports
        IN  /\ Len(all) = Cardinality(valid)
            /\ {all[i].timestamp : i \in 1 .. Len(all)} = valid
            /\ \A i \in 1 .. Len(all) :
                  all[i].pass_rate = reports.dirs[all[i].timestamp].pass_rate
            /\ \A i \in 1 .. (Len(all) - 1) : TsLess(all[i].timestamp, all[i + 1].timestamp)
            /\ err # "exception"
            /\ (valid # {}) => trend.fail \notin {"project-dir-not-found", "no-reports"}

(* one valid and one corrupt metadata.json: one record, and the run goes on *)
C5_Witness ==
    /\ TrendRan
    /\ Cardinality({n \in DOMAIN reports.dirs : reports.dirs[n].kind = "valid"}) = 1
    /\ Cardinality({n \in DOMAIN reports.dirs : reports.dirs[n].kind = "corrupt"}) = 1
    /\ Len(trend.allReports) = 1
    /\ pc = "awaiting"

(* C6 as stated: a type other than single and trend exits with code 1 with  *)
(* no network call and no change to the filesystem.                         *)
C6_UnknownTypeNoChange ==
    (type \notin {"single", "trend"}) =>
        /\ requests = 0
        /\ pc # "awaiting"
        /\ (pc = "exited" => exitCode = 1)
        /\ fsOps = <<>>
        /\ ~ArtifactWritten

(* C6 amended: a type other than single and trend exits with code 1 with    *)
(* no network call and no artifact written; the one filesystem change it    *)
(* can make is creating the analysis/<project> directory when it is absent. *)
C6_UnknownTypeNoArtifact ==
    (type \notin {"single", "trend"}) =>
        /\ requests = 0
        /\ pc # "awaiting"
        /\ (pc = "exited" => exitCode = 1)
        /\ fsOps \in {<<>>, <<"mkdir">>}
        /\ ~ArtifactWritten

(* an unknown type has been rejected after the directory was created *)
C6_Witness ==
    /\ type = "deploy"
    /\ pc = "exited"
    /\ err = "unknown-type"
    /\ exitCode = 1
    /\ fsOps = <<"mkdir">>

(* C7: in both modes, without the credential the process exits with code 1  *)
(* and no request is ever opened.                                           *)
C7_NoCredentialNoRequest ==
    ~apiKey =>
        /\ requests = 0
        /\ pc # "awaiting"
        /\ response.kind = "none"
        /\ (pc = "exited" => exitCode = 1)

(* the generation client was reached without a credential *)
C7_Witness ==
    /\ ~apiKey
    /\ type \in {"single", "trend"}
    /\ pc = "exited"
    /\ err = "no-api-key"
    /\ userPrompt # <<>>

(* the generation call failed: no credential, a request error, a status     *)
(* other than 200, or a body that does not decode                           *)
CallFailed ==
    \/ err = "no-api-key"
    \/ response.kind = "error"
    \/ /\ response.kind = "end"
       /\ \/ response.status # 200
          \/ ~response.body.json
          \/ response.body.blocks = 0

Placeholders ==
    {SinglePlaceholders[i] : i \in 1 .. Len(SinglePlaceholders)}
        \cup {TrendPlaceholders[i] : i \in 1 .. Len(TrendPlaceholders)}

(* C9: the rendered prompt holds no occurrence of a named placeholder, also *)
(* when the template uses a placeholder more than once.                     *)
C9_NoPlaceholderLeft ==
    \A i \in 1 .. Len(userPrompt) : userPrompt[i] \notin Placeholders

(* a valid record whose date lies in [now - period, now] *)
DatedInPeriod(n) ==
    /\ ReportDate(n) >= now - PeriodDays(period) * TicksPerDay
    /\ ReportDate(n) <= now

(* C10: in trend mode the window the statistics are computed over is        *)
(* non-empty and holds only records dated within [now - period, now], never *)
(* one dated after now; when no record is dated in that interval the run    *)
(* exits with code 1 before any statistics, request or write.               *)
C10_WindowWithinPeriod ==
    TrendRan =>
        /\ trend.computed =>
              /\ Len(trend.recentReports) > 0
              /\ \A i \in 1 .. Len(trend.recentReports) :
                    DatedInPeriod(trend.recentReports[i].timestamp)
        /\ (\A n \in DOMAIN reports.dirs :
                reports.dirs[n].kind = "valid" => ~DatedInPeriod(n))
              => /\ ~trend.computed
                 /\ pc = "exited" /\ exitCode = 1
                 /\ requests = 0
                 /\ ~ArtifactWritten

====
